---- MODULE Spec2Model ----
(***************************************************************************)
(* Model of practical_02/vacuum_world.py: the experiment runner            *)
(* (run_experiment), the reference environment (BasicVacuumWorld), the     *)
(* reference evaluator (CleanFloorEvaluator) and the agents of the file.   *)
(*                                                                         *)
(* One run of run_experiment is one behaviour.  Every call the loop body   *)
(* makes is one step of the model, so that the order of the calls inside   *)
(* a loop iteration is visible:                                            *)
(*   observe -> decide -> log -> update -> state -> evaluate -> (next t)   *)
(* A failure is a Python exception that is an instance of Exception; it is *)
(* a record (type, origin, arg).  Components that are not the reference    *)
(* ones of the file ("faulty" runs) may raise at any call.                 *)
(***************************************************************************)
EXTENDS Integers, Sequences, FiniteSets, TLC

VARIABLES
    environment,   \* BasicVacuumWorld fields: agent_location, dirt_status
    agent,         \* which agent class drives the run
    faulty,        \* TRUE: the components are fabricated ones that may raise
    score,         \* CleanFloorEvaluator._score
    t,             \* loop variable of run_experiment
    pc,            \* position of run_experiment
    observation,   \* value of environment.observable_state passed to decide
    decision,      \* local variable decision
    passed_state,  \* value of environment.state passed to evaluator.update
    nLog,          \* number of records emitted on the 'vacuum_world' logger
    lastLog,       \* the last record emitted
    nDecide,       \* invocations of agent.decide
    nUpdate,       \* invocations of environment.update
    nEval,         \* invocations of evaluator.update
    raised,        \* the exception raised by a component call, if any
    faults,        \* the ExperimentError records raised by run_experiment
    main_pc,       \* position of main
    argv,          \* command line: the three class paths and environment_args
    out,           \* records main emits on the root logger
    exit_status,   \* exit status of the process, NotExited while it runs
    score_read,    \* the value of evaluator.score last read by a caller
    eval_calls     \* states handed to CleanFloorEvaluator.update by a direct caller

vars == <<environment, agent, faulty, score, t, pc, observation, decision,
          passed_state, nLog, lastLog, nDecide, nUpdate, nEval, raised, faults,
          main_pc, argv, out, exit_status, score_read, eval_calls>>

hostVars == <<main_pc, argv, out, exit_status, score_read, eval_calls>>

runVars == <<environment, agent, faulty, score, t, pc, observation, decision,
             passed_state, nLog, lastLog, nDecide, nUpdate, nEval, raised, faults>>

----------------------------------------------------------------------------
(* Program constants *)

RangeStart == 1

RangeStopOffByOne == 1001 - 1

RangeStop == 1001

locations == <<"A", "B">>

Locations == {locations[i] : i \in 1..Len(locations)}

actions == {"LEFT", "RIGHT", "SUCK"}

\* Values an agent may hand to environment.update: the vocabulary, Python's
\* None (the value a decide without return statement yields), and strings
\* outside the vocabulary.
ActionValues == actions \cup {"None", "NOOP", "suck"}

\* Exception classes: ValueError, and one that is not a ValueError.
ExcTypes == {"ValueError", "RuntimeError"}

NoExc == [type |-> "none", origin |-> "none", arg |-> "none"]

NoObservation == [agent_location |-> "none", is_dirty |-> FALSE]

NoLog == [step |-> 0, decision |-> "none"]

NoArgv == [agent |-> "none", environment |-> "none", evaluator |-> "none",
           environment_args |-> [k \in {} |-> << >>]]

NotExited == 0 - 1

\* The agent classes of the file, and fabricated agents used as inputs.
SourceAgents == {"SuckyAgent", "RandomAgent", "RationalAgent"}

FabricatedAgents == {"ReflexAgent", "NoOpAgent", "LowerCaseAgent", "LeftAgent", "RightAgent"}

Agents == SourceAgents \cup FabricatedAgents

----------------------------------------------------------------------------
(* BasicVacuumWorld *)

BasicVacuumWorld(agent_location, dirt_status) ==
    [agent_location |-> agent_location, dirt_status |-> dirt_status]

NoEnvironment == [agent_location |-> "none", dirt_status |-> [l \in {} |-> FALSE]]

DIRTY_VALUES ==
    { <<"y">>, <<"y","e","s">>, <<"t">>, <<"t","r","u","e">>, <<"d","i","r","t","y">> }

CLEAN_VALUES ==
    { <<"n">>, <<"n","o">>, <<"f">>, <<"f","a","l","s","e">>, <<"c","l","e","a","n">> }

UpperCaseLetters ==
    <<"A","B","C","D","E","F","G","H","I","J","K","L","M",
      "N","O","P","Q","R","S","T","U","V","W","X","Y","Z">>

LowerCaseLetters ==
    <<"a","b","c","d","e","f","g","h","i","j","k","l","m",
      "n","o","p","q","r","s","t","u","v","w","x","y","z">>

\* str.lower(), a string being the sequence of its characters
LowerChar(c) ==
    IF \E i \in 1..Len(UpperCaseLetters) : UpperCaseLetters[i] = c
    THEN LowerCaseLetters[CHOOSE i \in 1..Len(UpperCaseLetters) : UpperCaseLetters[i] = c]
    ELSE c

lower_identity(string) == string

lower(string) == [i \in 1..Len(string) |-> LowerChar(string[i])]

\* _convert_to_dirt_status raises ValueError
convert_raises(string) == lower(string) \notin (DIRTY_VALUES \cup CLEAN_VALUES)

\* _convert_to_dirt_status returns
convert_to_dirt_status(string) == lower(string) \in DIRTY_VALUES

InitError(what) == [type |-> "ValueError", origin |-> "BasicVacuumWorld", arg |-> what]

\* BasicVacuumWorld.__init__: the exception it raises or the object it builds
BasicVacuumWorld_init(agent_location, dirt_status) ==
    IF Len(agent_location) # 1
    THEN [raises |-> TRUE, error |-> InitError("agent_location"), env |-> NoEnvironment]
    ELSE IF agent_location[1] \notin Locations
    THEN [raises |-> TRUE, error |-> InitError("agent_location"), env |-> NoEnvironment]
    ELSE IF Len(dirt_status) # Len(locations)
    THEN [raises |-> TRUE, error |-> InitError("dirt_status"), env |-> NoEnvironment]
    ELSE IF \E i \in 1..Len(dirt_status) : convert_raises(dirt_status[i])
    THEN [raises |-> TRUE, error |-> InitError("dirt status string"), env |-> NoEnvironment]
    ELSE [raises |-> FALSE, error |-> NoExc,
          env |-> BasicVacuumWorld(agent_location[1],
                     [l \in Locations |->
                        convert_to_dirt_status(
                           dirt_status[CHOOSE i \in 1..Len(locations) : locations[i] = l])])]

\* environment_class(**environment_args), with the defaults of __init__
Construct(environment_args) ==
    BasicVacuumWorld_init(
        IF "agent_location" \in DOMAIN environment_args
        THEN environment_args["agent_location"] ELSE <<"A">>,
        IF "dirt_status" \in DOMAIN environment_args
        THEN environment_args["dirt_status"] ELSE << <<"t">>, <<"t">> >>)

state(env) ==
    [agent_location |-> env.agent_location, dirt_status |-> env.dirt_status]

observable_state_leaky(env) ==
    [agent_location |-> env.agent_location,
     is_dirty       |-> env.dirt_status[env.agent_location],
     dirt_status    |-> env.dirt_status]

observable_state(env) ==
    [agent_location |-> env.agent_location,
     is_dirty       |-> env.dirt_status[env.agent_location]]

\* update raises ValueError(action) in its else branch
update_rejects_lenient(action) == action \notin (actions \cup {"None"})

update_rejects(action) == action \notin actions

update_cleans_everything(env, action) ==
    IF action = "SUCK"
    THEN [env EXCEPT !.dirt_status = [l \in Locations |-> FALSE]]
    ELSE IF action = "RIGHT" THEN [env EXCEPT !.agent_location = "B"]
    ELSE IF action = "LEFT" THEN [env EXCEPT !.agent_location = "A"]
    ELSE env

update_off_grid(env, action) ==
    IF action = "SUCK"
    THEN [env EXCEPT !.dirt_status[env.agent_location] = FALSE]
    ELSE IF action = "RIGHT"
    THEN [env EXCEPT !.agent_location = IF env.agent_location = "A" THEN "B" ELSE "C"]
    ELSE IF action = "LEFT" THEN [env EXCEPT !.agent_location = "A"]
    ELSE env

update_toggles(env, action) ==
    IF action = "SUCK"
    THEN [env EXCEPT !.dirt_status[env.agent_location] = ~env.dirt_status[env.agent_location]]
    ELSE IF action = "RIGHT" THEN [env EXCEPT !.agent_location = "B"]
    ELSE IF action = "LEFT" THEN [env EXCEPT !.agent_location = "A"]
    ELSE env

update_swapped(env, action) ==
    IF action = "SUCK"
    THEN [env EXCEPT !.dirt_status[env.agent_location] = FALSE]
    ELSE IF action = "RIGHT" THEN [env EXCEPT !.agent_location = "A"]
    ELSE IF action = "LEFT" THEN [env EXCEPT !.agent_location = "B"]
    ELSE env

update(env, action) ==
    IF action = "SUCK"
    THEN [env EXCEPT !.dirt_status[env.agent_location] = FALSE]
    ELSE IF action = "RIGHT" THEN [env EXCEPT !.agent_location = "B"]
    ELSE IF action = "LEFT" THEN [env EXCEPT !.agent_location = "A"]
    ELSE env

----------------------------------------------------------------------------
(* CleanFloorEvaluator *)

CountClean(dirt_status) == Cardinality({l \in DOMAIN dirt_status : dirt_status[l] = FALSE})

evaluator_update_overwrites(s, st) == CountClean(st.dirt_status)

evaluator_update_counts_all(s, st) == s + Cardinality(DOMAIN st.dirt_status)

evaluator_update(s, st) == s + CountClean(st.dirt_status)

----------------------------------------------------------------------------
(* Agents *)

decide(a, obs) ==
    CASE a = "SuckyAgent"     -> "SUCK"
      [] a = "RandomAgent"    -> "None"
      [] a = "RationalAgent"  -> "None"
      [] a = "ReflexAgent"    -> IF obs.is_dirty THEN "SUCK"
                                 ELSE IF obs.agent_location = "A" THEN "RIGHT"
                                 ELSE "LEFT"
      [] a = "NoOpAgent"      -> IF obs.is_dirty THEN "SUCK" ELSE "NOOP"
      [] a = "LeftAgent"      -> "LEFT"
      [] a = "RightAgent"     -> "RIGHT"
      [] a = "LowerCaseAgent" -> IF obs.is_dirty THEN "SUCK"
                                 ELSE IF obs.agent_location = "A" THEN "RIGHT"
                                 ELSE "suck"

----------------------------------------------------------------------------
(* run_experiment *)

\* except clauses around agent.decide(environment.observable_state)
ClassifyDecideAlwaysAgent(type) == "agent"

ClassifyDecide(type) == IF type = "ValueError" THEN "environment" ELSE "agent"

\* except clauses around environment.update(decision)
ClassifyUpdateSwapped(type) == IF type = "ValueError" THEN "environment" ELSE "agent"

ClassifyUpdate(type) == IF type = "ValueError" THEN "agent" ELSE "environment"

ExperimentError(component, cause) == [component |-> component, cause |-> cause]

\* raise ExperimentError(component, e): run_experiment is left
RaiseAndRetry(component, e) ==
    /\ raised' = e
    /\ faults' = Append(faults, ExperimentError(component, e))
    /\ pc' = "observe"

RaiseExperimentError(component, e) ==
    /\ raised' = e
    /\ faults' = Append(faults, ExperimentError(component, e))
    /\ pc' = "failed"

\* an exception raised outside the two try blocks leaves run_experiment as it is
Propagate(e) ==
    /\ raised' = e
    /\ pc' = "crashed"
    /\ UNCHANGED faults

Init ==
    /\ environment \in {BasicVacuumWorld(l, d) :
                          l \in Locations, d \in [Locations -> BOOLEAN]}
    /\ agent \in Agents
    /\ faulty \in BOOLEAN
    /\ score = 0
    /\ t = RangeStart
    /\ pc = "observe"
    /\ observation = NoObservation
    /\ decision = "none"
    /\ passed_state = state(environment)
    /\ nLog = 0
    /\ lastLog = NoLog
    /\ nDecide = 0
    /\ nUpdate = 0
    /\ nEval = 0
    /\ raised = NoExc
    /\ faults = << >>
    /\ main_pc = "run"
    /\ argv = NoArgv
    /\ out = << >>
    /\ exit_status = NotExited
    /\ score_read = 0
    /\ eval_calls = << >>

\* line 53, the argument: environment.observable_state
ReadObservableState ==
    /\ pc = "observe"
    /\ observation' = observable_state(environment)
    /\ pc' = "decide"
    /\ UNCHANGED <<environment, agent, faulty, score, t, decision, passed_state,
                   nLog, lastLog, nDecide, nUpdate, nEval, raised, faults>>
    /\ UNCHANGED hostVars

\* line 53, the argument raises: the handlers of lines 57-60 catch it
ObservableStateFails ==
    /\ pc = "observe"
    /\ faulty
    /\ \E ty \in ExcTypes :
         RaiseExperimentError(ClassifyDecide(ty),
             [type |-> ty, origin |-> "observable_state", arg |-> "fabricated"])
    /\ UNCHANGED <<environment, agent, faulty, score, t, observation, decision,
                   passed_state, nLog, lastLog, nDecide, nUpdate, nEval>>
    /\ UNCHANGED hostVars

\* line 53, the call: decision = agent.decide(...)
AgentDecide ==
    /\ pc = "decide"
    /\ decision' = decide(agent, observation)
    /\ nDecide' = nDecide + 1
    /\ pc' = "log"
    /\ UNCHANGED <<environment, agent, faulty, score, t, observation, passed_state,
                   nLog, lastLog, nUpdate, nEval, raised, faults>>
    /\ UNCHANGED hostVars

\* line 53, the call raises: lines 57-60
AgentDecideFails ==
    /\ pc = "decide"
    /\ faulty
    /\ nDecide' = nDecide + 1
    /\ \E ty \in ExcTypes :
         RaiseExperimentError(ClassifyDecide(ty),
             [type |-> ty, origin |-> "decide", arg |-> "fabricated"])
    /\ UNCHANGED <<environment, agent, faulty, score, t, observation, decision,
                   passed_state, nLog, lastLog, nUpdate, nEval>>
    /\ UNCHANGED hostVars

\* line 61: logger.info(MSG_AGENT_DECISION.format(t, repr(decision)))
LogDecisionSkipped ==
    /\ pc = "log"
    /\ pc' = "update"
    /\ UNCHANGED <<environment, agent, faulty, score, t, observation, decision,
                   passed_state, nLog, lastLog, nDecide, nUpdate, nEval, raised, faults>>
    /\ UNCHANGED hostVars

LogDecision ==
    /\ pc = "log"
    /\ nLog' = nLog + 1
    /\ lastLog' = [step |-> t, decision |-> decision]
    /\ pc' = "update"
    /\ UNCHANGED <<environment, agent, faulty, score, t, observation, decision,
                   passed_state, nDecide, nUpdate, nEval, raised, faults>>
    /\ UNCHANGED hostVars

\* line 63: environment.update(decision) returns
EnvironmentUpdate ==
    /\ pc = "update"
    /\ ~update_rejects(decision)
    /\ environment' = update(environment, decision)
    /\ nUpdate' = nUpdate + 1
    /\ pc' = "state"
    /\ UNCHANGED <<agent, faulty, score, t, observation, decision, passed_state,
                   nLog, lastLog, nDecide, nEval, raised, faults>>
    /\ UNCHANGED hostVars

\* line 63 with an update that acts before it validates
EnvironmentUpdateActsThenRejects ==
    /\ pc = "update"
    /\ update_rejects(decision)
    /\ nUpdate' = nUpdate + 1
    /\ environment' = update(environment, "SUCK")
    /\ RaiseExperimentError(ClassifyUpdate("ValueError"),
           [type |-> "ValueError", origin |-> "update", arg |-> decision])
    /\ UNCHANGED <<agent, faulty, score, t, observation, decision,
                   passed_state, nLog, lastLog, nDecide, nEval>>
    /\ UNCHANGED hostVars

\* line 63: BasicVacuumWorld.update raises ValueError(action); lines 64-65
EnvironmentUpdateRejects ==
    /\ pc = "update"
    /\ update_rejects(decision)
    /\ nUpdate' = nUpdate + 1
    /\ RaiseExperimentError(ClassifyUpdate("ValueError"),
           [type |-> "ValueError", origin |-> "update", arg |-> decision])
    /\ UNCHANGED <<environment, agent, faulty, score, t, observation, decision,
                   passed_state, nLog, lastLog, nDecide, nEval>>
    /\ UNCHANGED hostVars

\* line 63: a fabricated environment's update raises; lines 64-67
EnvironmentUpdateFails ==
    /\ pc = "update"
    /\ faulty
    /\ nUpdate' = nUpdate + 1
    /\ \E ty \in ExcTypes :
         RaiseExperimentError(ClassifyUpdate(ty),
             [type |-> ty, origin |-> "update", arg |-> "fabricated"])
    /\ UNCHANGED <<environment, agent, faulty, score, t, observation, decision,
                   passed_state, nLog, lastLog, nDecide, nEval>>
    /\ UNCHANGED hostVars

\* line 68 with a state read before the update of line 63
ReadStateStale ==
    /\ pc = "state"
    /\ passed_state' = passed_state
    /\ pc' = "evaluate"
    /\ UNCHANGED <<environment, agent, faulty, score, t, observation, decision,
                   nLog, lastLog, nDecide, nUpdate, nEval, raised, faults>>
    /\ UNCHANGED hostVars

\* line 68, the argument: environment.state
ReadState ==
    /\ pc = "state"
    /\ passed_state' = state(environment)
    /\ pc' = "evaluate"
    /\ UNCHANGED <<environment, agent, faulty, score, t, observation, decision,
                   nLog, lastLog, nDecide, nUpdate, nEval, raised, faults>>
    /\ UNCHANGED hostVars

\* line 68, the argument raises: no handler
StateFails ==
    /\ pc = "state"
    /\ faulty
    /\ \E ty \in ExcTypes :
         Propagate([type |-> ty, origin |-> "state", arg |-> "fabricated"])
    /\ UNCHANGED <<environment, agent, faulty, score, t, observation, decision,
                   passed_state, nLog, lastLog, nDecide, nUpdate, nEval>>
    /\ UNCHANGED hostVars

\* line 68, the call returns; then line 51: the next value of the range
EvaluatorUpdate ==
    /\ pc = "evaluate"
    /\ score' = evaluator_update(score, passed_state)
    /\ nEval' = nEval + 1
    /\ IF t + 1 < RangeStop
         THEN t' = t + 1 /\ pc' = "observe"
         ELSE t' = t /\ pc' = "completed"
    /\ UNCHANGED <<environment, agent, faulty, observation, decision, passed_state,
                   nLog, lastLog, nDecide, nUpdate, raised, faults>>
    /\ UNCHANGED hostVars

\* line 68, the call raises: no handler
EvaluatorUpdateFails ==
    /\ pc = "evaluate"
    /\ faulty
    /\ nEval' = nEval + 1
    /\ \E ty \in ExcTypes :
         Propagate([type |-> ty, origin |-> "evaluator.update", arg |-> "fabricated"])
    /\ UNCHANGED <<environment, agent, faulty, score, t, observation, decision,
                   passed_state, nLog, lastLog, nDecide, nUpdate>>
    /\ UNCHANGED hostVars

Next ==
    \/ ReadObservableState
    \/ ObservableStateFails
    \/ AgentDecide
    \/ AgentDecideFails
    \/ LogDecision
    \/ EnvironmentUpdate
    \/ EnvironmentUpdateRejects
    \/ EnvironmentUpdateFails
    \/ ReadState
    \/ StateFails
    \/ EvaluatorUpdate
    \/ EvaluatorUpdateFails

Spec == Init /\ [][Next]_vars

----------------------------------------------------------------------------
(* Terminal states of a run *)

Completed == pc = "completed"

Failed == pc = "failed"

Crashed == pc = "crashed"

Terminated == Completed \/ Failed \/ Crashed

TypeOK ==
    /\ environment.agent_location \in Locations
    /\ environment.dirt_status \in [Locations -> BOOLEAN]
    /\ agent \in Agents
    /\ faulty \in BOOLEAN
    /\ score \in Nat
    /\ t \in RangeStart..(RangeStop - 1)
    /\ pc \in {"observe", "decide", "log", "update", "state", "evaluate",
               "completed", "failed", "crashed"}
    /\ decision \in ActionValues \cup {"none"}
    /\ nLog \in Nat /\ nDecide \in Nat /\ nUpdate \in Nat /\ nEval \in Nat
    /\ Len(faults) <= 1

----------------------------------------------------------------------------
(* Properties of run_experiment *)

here == environment.agent_location

\* C1: when no call fails, run_experiment makes exactly 1000 cycles: decide,
\* environment.update and evaluator.update are each invoked 1000 times, the
\* run ends as Completed, and no run without a failure ends earlier, whatever
\* the environment state becomes.
C1_FixedHorizon ==
    /\ Completed => /\ nDecide = 1000 /\ nUpdate = 1000 /\ nEval = 1000
                    /\ t = 1000 /\ raised = NoExc /\ faults = << >>
    /\ (Terminated /\ raised = NoExc) => Completed
    /\ (raised = NoExc /\ nEval < 1000) => ~Terminated
    /\ nDecide <= 1000 /\ nUpdate <= 1000 /\ nEval <= 1000

C1_Witness ==
    /\ Completed
    /\ nEval = 1000
    /\ \A l \in Locations : environment.dirt_status[l] = FALSE

\* C2: when agent.decide fails, a ValueError ends the run with a fault record
\* whose component is 'environment', any other failure with one whose
\* component is 'agent'; the record's cause is the failure that was raised.
C2_DecideFault ==
    raised.origin = "decide" =>
        /\ Failed
        /\ Len(faults) = 1
        /\ raised.type = "ValueError" => faults[1].component = "environment"
        /\ raised.type # "ValueError" => faults[1].component = "agent"
        /\ faults[1].cause = raised
        /\ faults[1].cause.origin = "decide"

C2_Witness ==
    /\ Failed
    /\ raised.origin = "decide"
    /\ raised.type = "ValueError"
    /\ faults = <<ExperimentError("environment", raised)>>
    /\ t > 1

\* C3: when environment.update fails, a ValueError (InvalidAction) ends the
\* run with a fault record whose component is 'agent', any other failure with
\* one whose component is 'environment'.
C3_UpdateFault ==
    raised.origin = "update" =>
        /\ Failed
        /\ Len(faults) = 1
        /\ raised.type = "ValueError" => faults[1].component = "agent"
        /\ raised.type # "ValueError" => faults[1].component = "environment"
        /\ faults[1].cause = raised

C3_Witness ==
    /\ Failed
    /\ raised.origin = "update"
    /\ raised.type = "RuntimeError"
    /\ faults = <<ExperimentError("environment", raised)>>
    /\ t > 1

\* C4 (as claimed): a failure of the read of observable_state that is not a
\* ValueError ends the run with a fault record whose component is
\* 'environment'.
C4_ObservationFaultIsEnvironment ==
    (raised.origin = "observable_state" /\ raised.type # "ValueError") =>
        /\ Failed
        /\ Len(faults) = 1
        /\ faults[1].component = "environment"

\* C5: BasicVacuumWorld.update fails with ValueError (InvalidAction) on every
\* action outside {LEFT, RIGHT, SUCK}, None included; run_experiment classifies
\* it as an agent fault and stops at that step, with fewer than 1000 steps
\* completed.
C5_VocabularyEnforced ==
    /\ pc \in {"state", "evaluate"} => decision \in {"LEFT", "RIGHT", "SUCK"}
    /\ (raised.origin = "update" /\ raised.arg # "fabricated") =>
          /\ raised.arg = decision
          /\ decision \notin {"LEFT", "RIGHT", "SUCK"}
          /\ raised.type = "ValueError"
          /\ Failed
          /\ faults = <<ExperimentError("agent", raised)>>
          /\ nUpdate = t
          /\ nEval = t - 1
          /\ nEval < 1000

C5_Witness ==
    /\ Failed
    /\ ~faulty
    /\ agent = "RandomAgent"
    /\ raised = [type |-> "ValueError", origin |-> "update", arg |-> "None"]
    /\ faults = <<ExperimentError("agent", raised)>>
    /\ nEval < 1000

\* C6: the first fault is fatal: once a fault record exists the run is over,
\* no decide, update or evaluator.update call follows (for the failed step or
\* a later one), the step is not retried, and the run has exactly one fault
\* record.
C6_FirstFaultFatal ==
    /\ [](Len(faults) <= 1)
    /\ [](Len(faults) = 1 =>
            /\ Failed
            /\ faults[1].cause = raised
            /\ nDecide = (IF raised.origin = "observable_state" THEN t - 1 ELSE t)
            /\ nUpdate = (IF raised.origin = "update" THEN t ELSE t - 1)
            /\ nEval = t - 1)
    /\ [][Failed => UNCHANGED vars]_vars
    /\ [][Len(faults) = 1 => /\ nDecide' = nDecide /\ nUpdate' = nUpdate
                             /\ nEval' = nEval /\ faults' = faults]_vars

C6_Witness ==
    /\ Failed
    /\ Len(faults) = 1
    /\ raised.origin = "decide"
    /\ t = 3
    /\ nDecide = 3 /\ nUpdate = 2 /\ nEval = 2

\* C7 (as claimed): every run ends either as Completed or as Failed with a
\* fault record whose component is agent or environment, whichever call of
\* the step fails.
C7_EveryFailureClassified ==
    Terminated =>
        \/ Completed /\ faults = << >>
        \/ /\ Failed
           /\ Len(faults) = 1
           /\ faults[1].component \in {"agent", "environment"}

\* number of decide calls that returned a decision
DecideReturned ==
    nDecide - (IF raised.origin = "decide" THEN 1 ELSE 0)

\* C8: each step whose decide returned emits exactly one record (t, decision),
\* before environment.update is invoked with that decision and also when that
\* update fails; a step whose decide failed emits none; the logged step
\* indices are 1..k, k the number of decide calls that returned.
C8_DecisionLog ==
    /\ [](nLog = (IF pc = "log" THEN DecideReturned - 1 ELSE DecideReturned))
    /\ [](nLog > 0 => lastLog.step = nLog)
    /\ [](pc = "update" => /\ nLog = t /\ nUpdate = t - 1
                           /\ lastLog = [step |-> t, decision |-> decision])
    /\ [](nUpdate <= nLog)
    /\ [](raised.origin = "update" =>
              nLog = t /\ lastLog = [step |-> t, decision |-> decision])
    /\ [](raised.origin \in {"decide", "observable_state"} => nLog = t - 1)
    /\ [][nLog' # nLog => /\ nLog' = nLog + 1
                          /\ lastLog' = [step |-> nLog', decision |-> decision]
                          /\ nUpdate' = nUpdate]_vars

C8_Witness ==
    /\ Failed
    /\ raised.origin = "update"
    /\ t = 2
    /\ nLog = 2
    /\ lastLog = [step |-> 2, decision |-> "NOOP"]

\* C9: the observation of BasicVacuumWorld is agent_location and the dirt
\* status of that location only; environment states that agree on both and
\* differ elsewhere give the same observation; that observation is what
\* agent.decide receives.
C9_ObservationDoesNotLeak ==
    /\ observable_state(environment) =
          [agent_location |-> here, is_dirty |-> environment.dirt_status[here]]
    /\ \A d \in [Locations -> BOOLEAN] :
          d[here] = environment.dirt_status[here] =>
             observable_state(BasicVacuumWorld(here, d)) = observable_state(environment)
    /\ pc \in {"decide", "log"} =>
          /\ DOMAIN observation = {"agent_location", "is_dirty"}
          /\ observation.agent_location = here
          /\ observation.is_dirty = environment.dirt_status[here]
    /\ pc = "log" => decision = decide(agent, [agent_location |-> here,
                                    is_dirty |-> environment.dirt_status[here]])

C9_Witness ==
    /\ pc = "log"
    /\ t > 1
    /\ here = "B"
    /\ environment.dirt_status = [l \in Locations |-> l = "A"]
    /\ observation = [agent_location |-> "B", is_dirty |-> FALSE]

\* C10: update('SUCK') with the agent at L makes dirt_status[L] clean and
\* changes neither agent_location nor the dirt status of another location.
C10_SuckFrame ==
    [][(pc = "update" /\ pc' = "state" /\ decision = "SUCK") =>
          /\ environment'.agent_location = here
          /\ environment'.dirt_status[here] = FALSE
          /\ DOMAIN environment'.dirt_status = DOMAIN environment.dirt_status
          /\ \A l \in Locations \ {here} :
                environment'.dirt_status[l] = environment.dirt_status[l]]_vars

C10_Witness ==
    /\ pc = "state"
    /\ decision = "SUCK"
    /\ nUpdate = t
    /\ here = "A"
    /\ environment.dirt_status = [l \in Locations |-> l = "B"]

----------------------------------------------------------------------------
(* CleanFloorEvaluator driven directly: any sequence of states *)

MaxEvalCalls == 4

EnvironmentStates ==
    {BasicVacuumWorld(l, d) : l \in Locations, d \in [Locations -> BOOLEAN]}

\* the values of the variables that a specification does not use
IdleRun ==
    /\ agent = "none"
    /\ faulty = FALSE
    /\ t = RangeStart
    /\ pc = "idle"
    /\ observation = NoObservation
    /\ decision = "none"
    /\ nLog = 0
    /\ lastLog = NoLog
    /\ nDecide = 0
    /\ nUpdate = 0
    /\ raised = NoExc
    /\ faults = << >>

IdleHost ==
    /\ main_pc = "none"
    /\ out = << >>
    /\ exit_status = NotExited

\* evaluator = CleanFloorEvaluator()
InitEval ==
    /\ IdleRun
    /\ IdleHost
    /\ argv = NoArgv
    /\ environment = NoEnvironment
    /\ passed_state = NoEnvironment
    /\ score = 0
    /\ nEval = 0
    /\ score_read = 0
    /\ eval_calls = << >>

\* evaluator.update(st)
EvaluatorUpdateCall ==
    /\ Len(eval_calls) < MaxEvalCalls
    /\ \E st \in EnvironmentStates :
         /\ score' = evaluator_update(score, state(st))
         /\ passed_state' = state(st)
         /\ eval_calls' = Append(eval_calls, state(st))
    /\ nEval' = nEval + 1
    /\ UNCHANGED <<environment, agent, faulty, t, pc, observation, decision,
                   nLog, lastLog, nDecide, nUpdate, raised, faults,
                   main_pc, argv, out, exit_status, score_read>>

\* evaluator.score
ReadScore ==
    /\ score_read' = score
    /\ UNCHANGED <<runVars, main_pc, argv, out, exit_status, eval_calls>>

NextEval ==
    \/ EvaluatorUpdateCall
    \/ ReadScore

SpecEval == InitEval /\ [][NextEval]_vars

RECURSIVE SumClean(_)
SumClean(calls) ==
    IF calls = << >> THEN 0
    ELSE CountClean(Head(calls).dirt_status) + SumClean(Tail(calls))

\* C11: starting from 0, after n calls of update the score is the sum over the
\* n calls of the number of locations whose dirt status is False in the state
\* passed; the score never decreases and reading it does not change it.
C11_ScoreIsSumOfClean ==
    /\ [](nEval = Len(eval_calls))
    /\ [](score = SumClean(eval_calls))
    /\ [][score' >= score]_vars
    /\ [][nEval' = nEval => score' = score]_vars

C11_Witness ==
    /\ Len(eval_calls) = 3
    /\ CountClean(eval_calls[1].dirt_status) = 2
    /\ CountClean(eval_calls[2].dirt_status) = 0
    /\ CountClean(eval_calls[3].dirt_status) = 1
    /\ score = 3
    /\ score_read = 3

----------------------------------------------------------------------------
(* BasicVacuumWorld driven directly: construction, then any update calls *)

MaxUpdateCalls == 3

CaseVariantTokens ==
    { <<"T">>, <<"Y","e","s">>, <<"T","R","U","E">>, <<"D","i","r","t","y">>,
      <<"N">>, <<"n","O">>, <<"F","a","l","s","e">>, <<"C","L","E","A","N">> }

BadTokens ==
    { << >>, <<"m","a","y","b","e">>, <<"t","r">>, <<"1">>, <<"d","i","r","t">>,
      <<"Y","E">> }

Tokens == DIRTY_VALUES \cup CLEAN_VALUES \cup CaseVariantTokens \cup BadTokens

LocationArgs == { <<"A">>, <<"B">>, <<"C">>, <<"a">>, << >>, <<"A", "B">> }

DirtStatusArgs ==
    {<<x, y>> : x \in Tokens, y \in Tokens}
      \cup { << >>, << <<"t">> >>, << <<"t">>, <<"f">>, <<"t">> >> }

\* the dictionaries _extract_environment_args can build from the two parameters
EnvironmentArgsOver(LA, DA) ==
    { [k \in {} |-> << >>] }
      \cup { [k \in {"agent_location"} |-> la] : la \in LA }
      \cup { [k \in {"dirt_status"} |-> da] : da \in DA }
      \cup { [k \in {"agent_location", "dirt_status"} |->
                 IF k = "agent_location" THEN la ELSE da] : la \in LA, da \in DA }

InitEnv ==
    /\ argv \in {[NoArgv EXCEPT !.environment_args = ea] :
                    ea \in EnvironmentArgsOver(LocationArgs, DirtStatusArgs)}
    /\ environment = Construct(argv.environment_args).env
    /\ raised = Construct(argv.environment_args).error
    /\ pc = IF Construct(argv.environment_args).raises THEN "invalid" ELSE "constructed"
    /\ passed_state = NoEnvironment
    /\ agent = "none"
    /\ faulty = FALSE
    /\ score = 0
    /\ t = RangeStart
    /\ observation = NoObservation
    /\ decision = "none"
    /\ nLog = 0
    /\ lastLog = NoLog
    /\ nDecide = 0
    /\ nUpdate = 0
    /\ nEval = 0
    /\ faults = << >>
    /\ IdleHost
    /\ score_read = 0
    /\ eval_calls = << >>

\* environment.update(a) returns
UpdateAccepted ==
    /\ pc = "constructed"
    /\ nUpdate < MaxUpdateCalls
    /\ \E a \in ActionValues :
         /\ ~update_rejects(a)
         /\ environment' = update(environment, a)
         /\ decision' = a
    /\ raised' = NoExc
    /\ nUpdate' = nUpdate + 1
    /\ UNCHANGED <<agent, faulty, score, t, pc, observation, passed_state,
                   nLog, lastLog, nDecide, nEval, faults, hostVars>>

\* environment.update(a) raises ValueError(a)
UpdateRejected ==
    /\ pc = "constructed"
    /\ nUpdate < MaxUpdateCalls
    /\ \E a \in ActionValues :
         /\ update_rejects(a)
         /\ decision' = a
         /\ raised' = [type |-> "ValueError", origin |-> "update", arg |-> a]
    /\ nUpdate' = nUpdate + 1
    /\ UNCHANGED <<environment, agent, faulty, score, t, pc, observation, passed_state,
                   nLog, lastLog, nDecide, nEval, faults, hostVars>>

NextEnv ==
    \/ UpdateAccepted
    \/ UpdateRejected

SpecEnv == InitEnv /\ [][NextEnv]_vars

\* C16: in every state of a constructed BasicVacuumWorld, after any sequence
\* of accepted or rejected update calls, agent_location is A or B and
\* dirt_status has exactly the keys A and B with boolean values; no update
\* adds or removes a key.
C16_StateShape ==
    /\ [](pc = "constructed" =>
            /\ environment.agent_location \in {"A", "B"}
            /\ DOMAIN environment.dirt_status = {"A", "B"}
            /\ \A l \in {"A", "B"} : environment.dirt_status[l] \in BOOLEAN)
    /\ [][pc = "constructed" =>
            DOMAIN environment'.dirt_status = DOMAIN environment.dirt_status]_vars

C16_Witness ==
    /\ pc = "constructed"
    /\ nUpdate = 3
    /\ raised = [type |-> "ValueError", origin |-> "update", arg |-> "None"]
    /\ environment = BasicVacuumWorld("B", [l \in Locations |-> l = "A"])
    /\ "dirt_status" \in DOMAIN argv.environment_args
    /\ argv.environment_args["dirt_status"] = << <<"Y","e","s">>, <<"C","L","E","A","N">> >>

CleanLocations(env) == {l \in DOMAIN env.dirt_status : env.dirt_status[l] = FALSE}

\* C18: clean squares stay clean: no update call, accepted or rejected, makes
\* a clean location dirty, so the number of clean locations never decreases.
C18_CleanStaysClean ==
    [][pc = "constructed" =>
          /\ CleanLocations(environment) \subseteq CleanLocations(environment')
          /\ CountClean(environment'.dirt_status) >= CountClean(environment.dirt_status)]_vars

C18_Witness ==
    /\ pc = "constructed"
    /\ argv.environment_args = [k \in {} |-> << >>]
    /\ nUpdate = 3
    /\ decision = "SUCK"
    /\ environment = BasicVacuumWorld("A", [l \in Locations |-> l = "B"])

\* C19: update('LEFT') puts the agent at A and update('RIGHT') at B whatever
\* the previous location, both leave dirt_status unchanged; LEFT at A and
\* RIGHT at B change nothing and a move applied twice equals the move
\* applied once.
C19_Moves ==
    /\ [][(pc = "constructed" /\ nUpdate' = nUpdate + 1 /\ decision' = "LEFT") =>
            /\ raised' = NoExc
            /\ environment'.agent_location = "A"
            /\ environment'.dirt_status = environment.dirt_status]_vars
    /\ [][(pc = "constructed" /\ nUpdate' = nUpdate + 1 /\ decision' = "RIGHT") =>
            /\ raised' = NoExc
            /\ environment'.agent_location = "B"
            /\ environment'.dirt_status = environment.dirt_status]_vars
    /\ [](pc = "constructed" =>
            /\ here = "A" => update(environment, "LEFT") = environment
            /\ here = "B" => update(environment, "RIGHT") = environment
            /\ \A a \in {"LEFT", "RIGHT"} :
                 update(update(environment, a), a) = update(environment, a))

C19_Witness ==
    /\ pc = "constructed"
    /\ "agent_location" \in DOMAIN argv.environment_args
    /\ argv.environment_args["agent_location"] = <<"B">>
    /\ nUpdate = 2
    /\ decision = "LEFT"
    /\ raised = NoExc
    /\ environment = BasicVacuumWorld("A", [l \in Locations |-> TRUE])

----------------------------------------------------------------------------
(* The evaluator inside run_experiment *)

\* C17: evaluator.update is called once per completed step, after that step's
\* environment.update has returned and before the next observation is read,
\* with the environment's full state as it is after that update; a run that
\* faults at step t has updated the evaluator t-1 times, for steps 1..t-1 in
\* step order.
C17_EvaluatorOrder ==
    /\ [](pc = "evaluate" =>
            /\ passed_state = state(environment)
            /\ nUpdate = t
            /\ nEval = t - 1)
    /\ [](pc \in {"observe", "decide", "log", "update", "state"} => nEval = t - 1)
    /\ [](nEval <= nUpdate)
    /\ [](Failed => nEval = t - 1)
    /\ [][nEval' # nEval =>
            /\ pc = "evaluate"
            /\ nEval' = nEval + 1
            /\ nEval' = t
            /\ nUpdate = t
            /\ raised = NoExc
            /\ passed_state = state(environment)]_vars

C17_Witness ==
    /\ Failed
    /\ raised.origin = "update"
    /\ t = 3
    /\ nEval = 2
    /\ score = 3
    /\ passed_state = state(environment)

\* C20: a rejected action changes nothing: when BasicVacuumWorld.update fails
\* on an action outside the vocabulary, agent_location and dirt_status are as
\* before the call, and in run_experiment the score is the one after the
\* previous completed step (0 when the rejection is at step 1).
C20_RejectionChangesNothing ==
    /\ [][(pc = "update" /\ pc' = "failed") =>
            /\ environment' = environment
            /\ score' = score
            /\ nEval' = nEval]_vars
    /\ [][pc # "evaluate" => score' = score]_vars
    /\ []((raised.origin = "update" /\ t = 1) => score = 0)
    /\ []((raised.origin = "update" /\ raised.arg # "fabricated") =>
            /\ environment.agent_location = passed_state.agent_location
            /\ environment.dirt_status = passed_state.dirt_status
            /\ nEval = t - 1)

C20_Witness ==
    /\ Failed
    /\ ~faulty
    /\ agent = "NoOpAgent"
    /\ raised = [type |-> "ValueError", origin |-> "update", arg |-> "NOOP"]
    /\ t = 2
    /\ score = 1
    /\ environment = BasicVacuumWorld("A", [l \in Locations |-> l = "B"])

----------------------------------------------------------------------------
(* main: the host program *)

\* classes defined in the file, found by _load_class through globals()
Globals == {"BasicVacuumWorld", "CleanFloorEvaluator",
            "SuckyAgent", "RandomAgent", "RationalAgent"}

\* modules importlib can import, and the classes they hold: a fabricated
\* module with an environment whose calls may raise
ImportableModules == { <<"fabricated">> }

ModuleClasses == {"FaultyWorld"}

\* an import path is the sequence of its dot-separated segments
ModuleName(path) == SubSeq(path, 1, Len(path) - 1)

ClassName(path) == path[Len(path)]

\* _load_class: the class found, or the exception raised
load_class(path) ==
    IF ModuleName(path) # << >>
    THEN IF ModuleName(path) \notin ImportableModules
         THEN [error |-> "ImportError", class |-> "none"]
         ELSE IF ClassName(path) \notin ModuleClasses
         THEN [error |-> "_ClassNotFoundError", class |-> "none"]
         ELSE [error |-> "none", class |-> ClassName(path)]
    ELSE IF ClassName(path) \notin Globals
         THEN [error |-> "_ClassNotFoundError", class |-> "none"]
         ELSE [error |-> "none", class |-> ClassName(path)]

Record(kind, who, cause, value) ==
    [kind |-> kind, who |-> who, cause |-> cause, value |-> value]

\* exit status of sys.exit(1) and of an uncaught exception
ExitFailure == 1

\* exit status when main returns: line 382 drops the value main returns
ExitAfterReturn(returned) == 0

AgentPaths == { <<"SuckyAgent">>, <<"RandomAgent">>, <<"RationalAgent">>,
                <<"NoSuchAgent">>, <<"nomodule", "Agent">>,
                <<"fabricated", "NoSuchAgent">> }

EnvironmentPaths == { <<"BasicVacuumWorld">>, <<"fabricated", "FaultyWorld">>,
                      <<"NoSuchWorld">>, <<"nomodule", "World">> }

EvaluatorPaths == { <<"CleanFloorEvaluator">>, <<"NoSuchEvaluator">> }

MainLocationArgs == { <<"A">>, <<"B">>, <<"C">>, << >> }

MainTokens == { <<"D","i","r","t","y">>, <<"f">>, <<"m","a","y","b","e">> }

MainDirtStatusArgs ==
    {<<x, y>> : x \in MainTokens, y \in MainTokens} \cup { << <<"t">> >> }

\* the state after line 255: arguments parsed, greeting logged
InitMain ==
    /\ argv \in {[agent |-> a, environment |-> e, evaluator |-> v, environment_args |-> ea] :
                   a \in AgentPaths, e \in EnvironmentPaths, v \in EvaluatorPaths,
                   ea \in EnvironmentArgsOver(MainLocationArgs, MainDirtStatusArgs)}
    /\ main_pc = "load_environment"
    /\ out = <<Record("hello", "main", NoExc, 0)>>
    /\ exit_status = NotExited
    /\ score_read = 0
    /\ eval_calls = << >>
    /\ IdleRun
    /\ environment = NoEnvironment
    /\ passed_state = NoEnvironment
    /\ score = 0
    /\ nEval = 0

\* _try_load_class(import_path, role)
TryLoadClass(path, role, next_pc) ==
    IF load_class(path).error = "none"
    THEN /\ main_pc' = next_pc
         /\ UNCHANGED <<out, exit_status>>
    ELSE /\ out' = Append(out, Record("load_error", role, NoExc, 0))
         /\ exit_status' = ExitFailure
         /\ main_pc' = "exited"

\* line 258
LoadEnvironment ==
    /\ main_pc = "load_environment"
    /\ TryLoadClass(argv.environment, "environment", "load_agent")
    /\ UNCHANGED <<runVars, argv, score_read, eval_calls>>

\* line 259
LoadAgent ==
    /\ main_pc = "load_agent"
    /\ TryLoadClass(argv.agent, "agent", "load_evaluator")
    /\ UNCHANGED <<runVars, argv, score_read, eval_calls>>

\* line 260
LoadEvaluator ==
    /\ main_pc = "load_evaluator"
    /\ TryLoadClass(argv.evaluator, "evaluator", "instantiate")
    /\ UNCHANGED <<runVars, argv, score_read, eval_calls>>

\* lines 263-269 and the call of line 273
Instantiate ==
    /\ main_pc = "instantiate"
    /\ score' = 0
    /\ agent' = ClassName(argv.agent)
    /\ faulty' = (ClassName(argv.environment) = "FaultyWorld")
    /\ IF Construct(argv.environment_args).raises
       THEN /\ raised' = Construct(argv.environment_args).error
            /\ out' = Append(out, Record("init_error", "environment",
                                         Construct(argv.environment_args).error, 0))
            /\ exit_status' = ExitAfterReturn(1)
            /\ main_pc' = "exited"
            /\ UNCHANGED <<environment, pc>>
       ELSE /\ environment' = Construct(argv.environment_args).env
            /\ pc' = "observe"
            /\ main_pc' = "run"
            /\ UNCHANGED <<raised, out, exit_status>>
    /\ UNCHANGED <<t, observation, decision, passed_state, nLog, lastLog,
                   nDecide, nUpdate, nEval, faults, argv, score_read, eval_calls>>

\* line 277: run_experiment returned
RunCompleted ==
    /\ main_pc = "run"
    /\ pc = "completed"
    /\ out' = Append(out, Record("complete", "main", NoExc, 0))
    /\ main_pc' = "report"
    /\ UNCHANGED <<runVars, argv, exit_status, score_read, eval_calls>>

\* lines 278-279: run_experiment raised ExperimentError
RunFailed ==
    /\ main_pc = "run"
    /\ pc = "failed"
    /\ out' = Append(out, Record("experiment_error", faults[Len(faults)].component,
                                 faults[Len(faults)].cause, 0))
    /\ main_pc' = "report"
    /\ UNCHANGED <<runVars, argv, exit_status, score_read, eval_calls>>

\* run_experiment raised something else: main has no handler for it
RunCrashed ==
    /\ main_pc = "run"
    /\ pc = "crashed"
    /\ exit_status' = ExitFailure
    /\ main_pc' = "exited"
    /\ UNCHANGED <<runVars, argv, out, score_read, eval_calls>>

\* lines 282-283, then main returns None
ReportResults ==
    /\ main_pc = "report"
    /\ score_read' = score
    /\ out' = Append(out, Record("score", "main", NoExc, score))
    /\ exit_status' = ExitAfterReturn(0)
    /\ main_pc' = "exited"
    /\ UNCHANGED <<runVars, argv, eval_calls>>

NextMain ==
    \/ LoadEnvironment
    \/ LoadAgent
    \/ LoadEvaluator
    \/ Instantiate
    \/ ReadObservableState
    \/ ObservableStateFails
    \/ AgentDecide
    \/ AgentDecideFails
    \/ LogDecision
    \/ EnvironmentUpdate
    \/ EnvironmentUpdateRejects
    \/ EnvironmentUpdateFails
    \/ ReadState
    \/ StateFails
    \/ EvaluatorUpdate
    \/ EvaluatorUpdateFails
    \/ RunCompleted
    \/ RunFailed
    \/ RunCrashed
    \/ ReportResults

SpecMain == InitMain /\ [][NextMain]_vars

Exited == main_pc = "exited"

Emitted(kind) == {i \in 1..Len(out) : out[i].kind = kind}

\* the run of SuckyAgent in BasicVacuumWorld started at (A, dirty, dirty) with
\* CleanFloorEvaluator
SuckyDirtyRun ==
    /\ argv.agent = <<"SuckyAgent">>
    /\ argv.environment = <<"BasicVacuumWorld">>
    /\ argv.evaluator = <<"CleanFloorEvaluator">>
    /\ ~Construct(argv.environment_args).raises
    /\ Construct(argv.environment_args).env =
          [agent_location |-> "A", dirt_status |-> [l \in {"A", "B"} |-> TRUE]]

\* C12: the full loop with SuckyAgent, BasicVacuumWorld started at (A, dirty,
\* dirty) and a fresh CleanFloorEvaluator completes without fault with final
\* score 1000: A is clean after every step, B is never cleaned; every such
\* run gives the same score.
C12_SuckyScore ==
    SuckyDirtyRun =>
        /\ ~Failed /\ ~Crashed
        /\ faults = << >> /\ raised = NoExc
        /\ score = nEval
        /\ nEval >= 1 => environment.dirt_status = [l \in {"A", "B"} |-> l = "B"]
        /\ Completed => score = 1000
        /\ Exited => /\ Completed
                     /\ score_read = 1000
                     /\ out[Len(out)] = Record("score", "main", NoExc, 1000)

C12_Witness ==
    /\ SuckyDirtyRun
    /\ "dirt_status" \in DOMAIN argv.environment_args
    /\ Exited
    /\ Completed
    /\ score = 1000
    /\ out[Len(out)] = Record("score", "main", NoExc, 1000)

AcceptedTokens == DIRTY_VALUES \cup CLEAN_VALUES \cup CaseVariantTokens

\* C13: BasicVacuumWorld's constructor fails with ValueError
\* (InvalidConfiguration) for an agent location outside {A, B} and for a
\* dirt-status token that, lower-cased, is neither a dirty nor a clean value;
\* tokens that differ from a recognized one only by letter case are accepted;
\* main reports the failure before run_experiment starts, so no decide,
\* update or evaluator call is made.
C13_BadConstruction ==
    /\ []((main_pc = "instantiate" /\ DOMAIN argv.environment_args = {}) =>
          /\ \A tok \in DIRTY_VALUES \cup {<<"T">>, <<"Y","e","s">>, <<"T","R","U","E">>,
                                           <<"D","i","r","t","y">>} :
                ~convert_raises(tok) /\ convert_to_dirt_status(tok) = TRUE
          /\ \A tok \in CLEAN_VALUES \cup {<<"N">>, <<"n","O">>, <<"F","a","l","s","e">>,
                                           <<"C","L","E","A","N">>} :
                ~convert_raises(tok) /\ convert_to_dirt_status(tok) = FALSE
          /\ \A tok \in BadTokens : convert_raises(tok)
          /\ \A la \in LocationArgs \cup MainLocationArgs :
             \A da \in DirtStatusArgs \cup MainDirtStatusArgs :
                (Len(la) = 1 /\ Len(da) = 2) =>
                   /\ BasicVacuumWorld_init(la, da).raises <=>
                         \/ la[1] \notin {"A", "B"}
                         \/ \E i \in 1..2 : da[i] \notin AcceptedTokens
                   /\ BasicVacuumWorld_init(la, da).raises =>
                         BasicVacuumWorld_init(la, da).error.type = "ValueError")
    /\ [][main_pc = "instantiate" =>
            IF \/ /\ "agent_location" \in DOMAIN argv.environment_args
                  /\ \/ Len(argv.environment_args["agent_location"]) # 1
                     \/ argv.environment_args["agent_location"][1] \notin {"A", "B"}
               \/ /\ "dirt_status" \in DOMAIN argv.environment_args
                  /\ \/ Len(argv.environment_args["dirt_status"]) # 2
                     \/ \E i \in 1..2 :
                          argv.environment_args["dirt_status"][i] \notin AcceptedTokens
            THEN /\ main_pc' = "exited"
                 /\ pc' = "idle"
                 /\ nDecide' = 0 /\ nUpdate' = 0 /\ nEval' = 0 /\ nLog' = 0
                 /\ raised'.type = "ValueError"
                 /\ out' = Append(out, Record("init_error", "environment", raised', 0))
            ELSE /\ main_pc' = "run"
                 /\ pc' = "observe"
                 /\ raised' = NoExc
                 /\ environment'.agent_location \in {"A", "B"}]_vars
    /\ [][main_pc = "exited" => UNCHANGED vars]_vars
    /\ [](pc # "idle" => main_pc \in {"run", "report", "exited"})

C13_Witness ==
    /\ Exited
    /\ "dirt_status" \in DOMAIN argv.environment_args
    /\ argv.environment_args["dirt_status"] = << <<"D","i","r","t","y">>, <<"m","a","y","b","e">> >>
    /\ out[Len(out)].kind = "init_error"
    /\ nDecide = 0 /\ nUpdate = 0 /\ nEval = 0

\* C14 (as claimed): when run_experiment ends with a fault, main emits one
\* failure record naming the component and the cause and ends without a
\* score record; a score record is emitted only for runs that completed.
C14_NoScoreAfterFault ==
    /\ (Exited /\ Failed) =>
          /\ Cardinality(Emitted("experiment_error")) = 1
          /\ \E i \in Emitted("experiment_error") :
                out[i].who = faults[1].component /\ out[i].cause = faults[1].cause
          /\ Emitted("score") = {}
    /\ Emitted("score") # {} => Completed

\* C15 (as claimed): every pre-run failure (a class path that cannot be
\* resolved, or the environment constructor rejecting its parameters) ends
\* the program with a non-zero exit status, no step run and no score record.
C15_PreRunFailureExitsNonZero ==
    (Exited /\ pc = "idle") =>
        /\ exit_status # 0
        /\ nDecide = 0 /\ nUpdate = 0 /\ nEval = 0
        /\ Emitted("score") = {}

====
